---------------------------- MODULE Spec2Model ----------------------------
(***************************************************************************)
(* Model of the storefront client's cart ledger (context/CartContext.tsx). *)
(* The provider keeps one piece of state, cartItems, changes it only       *)
(* through functional updaters passed to setCartItems, and derives         *)
(* totalItems / totalPrice from it in a useMemo keyed on cartItems.        *)
(* A UI event calls one context function; React applies its updater to the *)
(* current state and re-renders the provider, recomputing the memo.  That  *)
(* is one action.  lastCall and prevItems describe the event in progress   *)
(* and are reset by EventDone when the UI is idle again.                   *)
(***************************************************************************)
EXTENDS Integers, Sequences, FiniteSets

(* ------------------------------ bounds --------------------------------- *)
MaxArg == 3         \* largest quantity argument passed to a call
MaxNeg == 1         \* quantity arguments (and stored quantities) go down to -MaxNeg
MaxTotal == 5       \* calls that would push the summed quantity above this are not issued

ProductIds == {1, 2, 3}     \* sample product ids
Prices == {10, 25}          \* sample unit prices, in minor currency units
QuantityArgs == (0 - MaxNeg)..MaxArg

(* Product (types/product, as far as the cart reads it): id and price.     *)
Product == [id : ProductIds, price : Prices]

VARIABLES
    cartItems,      \* useState<CartItem[]>([]) : sequence of [id, price, quantity]
    totalItems,     \* memoized count   (exposed as cartTotalItems)
    totalPrice,     \* memoized price   (exposed as cartTotalPrice)
    lastCall,       \* the context function called by the current event, with its arguments
    prevItems,      \* the prevItems value that call's updater received
    insertionOrder, \* history: ids in order of the call that created their entry
    createdPrice    \* history: per id, the price carried by the creating call (0: none)

\* CartItem extends Product { quantity: number }
CartItem == [id : ProductIds, price : Prices, quantity : Int]

cartVars == <<cartItems, totalItems, totalPrice, lastCall, prevItems,
              insertionOrder, createdPrice>>

\* The derivations of the pages (filters, related and featured products) are
\* pure functions of their inputs; they are also exercised on their own:
VARIABLES
    pc,             \* "idle" | "call" (arguments chosen) | "return" (result computed)
    args,           \* the arguments of the derivation under study
    result          \* what it returned

derivationVars == <<pc, args, result>>

\* The components that read the catalog (App.tsx: SearchProvider and Header
\* are always mounted, one page is mounted per route):
VARIABLES
    route,          \* the matched route and its useParams() values
    searchTerm,     \* SearchProvider: useState<string>("")
    selectedCategory, \* CategoryFilterProvider: useState<Category | null>(null)
    searchProvider, \* SearchProvider: allProducts, searchLoading, searchError, memo
    header,         \* Header: categories
    homePage,       \* HomePage: products, featuredProducts, loading, error, memo
    categoryPage,   \* CategoryProductsPage: allProducts, loading, error, memo
    detailPage,     \* ProductDetailPage: product, relatedProducts, loading, error, quantity
    requests,       \* calls of the api object awaiting their outcome, oldest first
    issued,         \* history: fetches the mounted page has started since it mounted
    lastSettled     \* history: the call whose outcome the step just taken delivered

viewVars == <<route, searchTerm, selectedCategory, searchProvider, header, homePage,
              categoryPage, detailPage, requests, issued, lastSettled>>

otherVars == <<derivationVars, viewVars>>

vars == <<cartVars, otherVars>>

\* No derivation is under study.
DerivationIdle == pc = "idle" /\ args = << >> /\ result = << >>

\* JavaScript's null, as the value of a state that holds no error / no product.
null == [null |-> TRUE]

\* A call of the api object (services): who awaits it, which function, the
\* id passed to getProductById (0: none), and for the getAllProducts call of
\* fetchProductDetails the product fetched before it.
Request(owner, call, productId, fetched) ==
    [owner |-> owner, call |-> call, productId |-> productId, fetched |-> fetched]

NoSettle == [status |-> "none"]

\* useParams() without the parameter
NoProductId == 0
NoCategoryName == <<"undefined">>
\* selectedCategory when no category is selected: null
NoCategory == <<"null">>
Route(path, productId, categoryName) ==
    [path |-> path, productId |-> productId, categoryName |-> categoryName]

\* The useState initial values of the components.
initialSearchProvider ==
    [allProducts |-> << >>, searchLoading |-> TRUE, searchError |-> null,
     filteredProducts |-> << >>]
initialHeader == [categories |-> << >>]
initialHomePage ==
    [products |-> << >>, featuredProducts |-> << >>, loading |-> TRUE,
     error |-> null, filteredProducts |-> << >>]
initialCategoryPage ==
    [allProducts |-> << >>, loading |-> TRUE, error |-> null,
     filteredProducts |-> << >>]
initialDetailPage ==
    [product |-> null, relatedProducts |-> << >>, loading |-> TRUE,
     error |-> null, quantity |-> 1]

\* The application opened at "/": Header, HomePage and SearchProvider have
\* mounted and the mount effect of each has issued its fetch.  A page that is
\* not mounted is shown with the values its next mount starts from.
ViewsInit ==
    /\ route = Route("/", NoProductId, NoCategoryName)
    /\ searchTerm = << >>
    /\ selectedCategory = NoCategory
    /\ searchProvider = initialSearchProvider
    /\ header = initialHeader
    /\ homePage = initialHomePage
    /\ categoryPage = initialCategoryPage
    /\ detailPage = initialDetailPage
    /\ requests = << Request("Header", "getCategories", NoProductId, null),
                     Request("HomePage", "getAllProducts", NoProductId, null),
                     Request("SearchProvider", "getAllProducts", NoProductId, null) >>
    /\ issued = 1
    /\ lastSettled = NoSettle

(* ------------------------------ helpers -------------------------------- *)
Max(a, b) == IF a >= b THEN a ELSE b

\* Array.prototype.findIndex with the predicate item.id === id: the first
\* matching position (1-based here), or -1.
findIndex(items, id) ==
    IF \E i \in 1..Len(items) : items[i].id = id
    THEN CHOOSE i \in 1..Len(items) :
            /\ items[i].id = id
            /\ \A j \in 1..(i - 1) : items[j].id # id
    ELSE -1

(* --------------------------- the updaters ------------------------------ *)
\* Faulty variants of addToCart, used to test that the properties below
\* depend on it.  (1) never looks for an existing entry.
addToCart_AlwaysAppends(items, product, quantityToAdd) ==
    Append(items, [id |-> product.id, price |-> product.price,
                   quantity |-> quantityToAdd])

\* (2) replaces the existing quantity instead of adding to it.
addToCart_OverwritesQuantity(items, product, quantityToAdd) ==
    LET existingItemIndex == findIndex(items, product.id)
    IN  IF existingItemIndex > -1
        THEN [items EXCEPT ![existingItemIndex] =
                 [@ EXCEPT !.quantity = quantityToAdd]]
        ELSE Append(items, [id |-> product.id, price |-> product.price,
                            quantity |-> quantityToAdd])

\* (3) puts a new entry in front: [{ ...product, quantity }, ...prevItems].
addToCart_Prepends(items, product, quantityToAdd) ==
    LET existingItemIndex == findIndex(items, product.id)
    IN  IF existingItemIndex > -1
        THEN [items EXCEPT ![existingItemIndex] =
                 [@ EXCEPT !.quantity = @ + quantityToAdd]]
        ELSE <<[id |-> product.id, price |-> product.price,
                quantity |-> quantityToAdd]>> \o items

\* (4) spreads the passed product over the existing entry:
\* { ...existing, ...product, quantity: existing.quantity + quantityToAdd }.
addToCart_RespreadsProduct(items, product, quantityToAdd) ==
    LET existingItemIndex == findIndex(items, product.id)
    IN  IF existingItemIndex > -1
        THEN [items EXCEPT ![existingItemIndex] =
                 [id |-> product.id, price |-> product.price,
                  quantity |-> @.quantity + quantityToAdd]]
        ELSE Append(items, [id |-> product.id, price |-> product.price,
                            quantity |-> quantityToAdd])

\* addToCart's updater: bump the existing entry in place, else append
\* { ...product, quantity: quantityToAdd }.
addToCart(items, product, quantityToAdd) ==
    LET existingItemIndex == findIndex(items, product.id)
    IN  IF existingItemIndex > -1
        THEN [items EXCEPT ![existingItemIndex] =
                 [@ EXCEPT !.quantity = @ + quantityToAdd]]
        ELSE Append(items, [id |-> product.id, price |-> product.price,
                            quantity |-> quantityToAdd])

\* quantityToAdd: number = 1
defaultQuantityToAdd == 1
addToCartDefault(items, product) == addToCart(items, product, defaultQuantityToAdd)

\* Faulty variant of removeFromCart: the filter predicate inverted (===).
removeFromCart_KeepsMatch(items, productId) ==
    SelectSeq(items, LAMBDA item : item.id = productId)

\* removeFromCart's updater: filter(item => item.id !== productId).
removeFromCart(items, productId) ==
    SelectSeq(items, LAMBDA item : item.id # productId)

\* Faulty variants of updateQuantity.  (1) stores the argument unclamped.
updateQuantity_NoClamp(items, productId, quantity) ==
    [i \in 1..Len(items) |->
        IF items[i].id = productId
        THEN [items[i] EXCEPT !.quantity = quantity]
        ELSE items[i]]

\* (2) creates the entry when the id is absent.
updateQuantity_Upserts(items, productId, quantity) ==
    LET newQuantity == Max(1, quantity)
    IN  IF \E i \in 1..Len(items) : items[i].id = productId
        THEN [i \in 1..Len(items) |->
                IF items[i].id = productId
                THEN [items[i] EXCEPT !.quantity = newQuantity]
                ELSE items[i]]
        ELSE Append(items, [id |-> productId, price |-> 0, quantity |-> newQuantity])

\* updateQuantity's updater: map over the entries, replacing the quantity of
\* those with the id by Math.max(1, quantity).
updateQuantity(items, productId, quantity) ==
    LET newQuantity == Max(1, quantity)
    IN  [i \in 1..Len(items) |->
            IF items[i].id = productId
            THEN [items[i] EXCEPT !.quantity = newQuantity]
            ELSE items[i]]

\* Faulty variant of clearCart: sets the state to the current cartItems.
clearCart_KeepsItems == cartItems

\* clearCart: setCartItems([]).
clearCart == << >>

(* ----------------------------- the memo -------------------------------- *)
\* cartItems.forEach: count += item.quantity; price += item.price * item.quantity
RECURSIVE forEachTotals(_, _, _)
forEachTotals(items, count, price) ==
    IF items = << >>
    THEN [totalItems |-> count, totalPrice |-> price]
    ELSE forEachTotals(Tail(items),
                       count + Head(items).quantity,
                       price + Head(items).price * Head(items).quantity)

computeTotals(items) == forEachTotals(items, 0, 0)

(* ------------------------------ actions -------------------------------- *)
NoCall == [op |-> "none", id |-> 0, price |-> 0, quantity |-> 0]

Init ==
    /\ cartItems = << >>
    /\ totalItems = computeTotals(<< >>).totalItems
    /\ totalPrice = computeTotals(<< >>).totalPrice
    /\ lastCall = NoCall
    /\ prevItems = << >>
    /\ insertionOrder = << >>
    /\ createdPrice = [i \in ProductIds |-> 0]
    /\ DerivationIdle
    /\ ViewsInit

\* The shape of the provider's state.
TypeOK ==
    /\ cartItems \in Seq(CartItem)
    /\ prevItems \in Seq(CartItem)
    /\ totalItems \in Int
    /\ totalPrice \in Int
    /\ lastCall.op \in {"none", "addToCart", "removeFromCart", "updateQuantity", "clearCart"}

\* The state bound: quantities stay within the modelled range.
WithinBounds(items) ==
    /\ \A i \in 1..Len(items) : items[i].quantity >= 0 - MaxNeg
    /\ computeTotals(items).totalItems <= MaxTotal

\* Faulty variant of Commit: totals kept as counters that only addToCart
\* adjusts, instead of being recomputed from the entries.
Commit_IncrementalTotals(newItems, call) ==
    /\ lastCall = NoCall
    /\ WithinBounds(newItems)
    /\ cartItems' = newItems
    /\ totalItems' = totalItems + (IF call.op = "addToCart" THEN call.quantity ELSE 0)
    /\ totalPrice' = totalPrice + (IF call.op = "addToCart"
                                    THEN call.price * call.quantity ELSE 0)
    /\ prevItems' = cartItems
    /\ lastCall' = call
    /\ UNCHANGED otherVars

\* A call's updater is applied to the current state and the provider
\* re-renders, recomputing the memo from the new cartItems.
Commit(newItems, call) ==
    /\ lastCall = NoCall
    /\ WithinBounds(newItems)
    /\ cartItems' = newItems
    /\ totalItems' = computeTotals(newItems).totalItems
    /\ totalPrice' = computeTotals(newItems).totalPrice
    /\ prevItems' = cartItems
    /\ lastCall' = call
    /\ UNCHANGED otherVars

InCart(items, id) == \E i \in 1..Len(items) : items[i].id = id

AddToCart ==
    \E product \in Product, quantityToAdd \in QuantityArgs :
        /\ Commit(addToCart(cartItems, product, quantityToAdd),
                  [op |-> "addToCart", id |-> product.id,
                   price |-> product.price, quantity |-> quantityToAdd])
        /\ IF InCart(cartItems, product.id)
           THEN UNCHANGED <<insertionOrder, createdPrice>>
           ELSE /\ insertionOrder' = Append(insertionOrder, product.id)
                /\ createdPrice' = [createdPrice EXCEPT ![product.id] = product.price]

RemoveFromCart ==
    \E productId \in ProductIds :
        /\ Commit(removeFromCart(cartItems, productId),
                  [op |-> "removeFromCart", id |-> productId,
                   price |-> 0, quantity |-> 0])
        /\ insertionOrder' = SelectSeq(insertionOrder, LAMBDA id : id # productId)
        /\ createdPrice' = [createdPrice EXCEPT ![productId] = 0]

UpdateQuantity ==
    \E productId \in ProductIds, quantity \in QuantityArgs :
        /\ Commit(updateQuantity(cartItems, productId, quantity),
                  [op |-> "updateQuantity", id |-> productId,
                   price |-> 0, quantity |-> quantity])
        /\ UNCHANGED <<insertionOrder, createdPrice>>

ClearCart ==
    /\ Commit(clearCart,
              [op |-> "clearCart", id |-> 0, price |-> 0, quantity |-> 0])
    /\ insertionOrder' = << >>
    /\ createdPrice' = [i \in ProductIds |-> 0]

\* The event that issued the call is over: the provider has rendered with the
\* new context value and the UI waits for the next event.
EventDone ==
    /\ lastCall # NoCall
    /\ lastCall' = NoCall
    /\ prevItems' = << >>
    /\ UNCHANGED <<cartItems, totalItems, totalPrice, insertionOrder, createdPrice>>
    /\ UNCHANGED otherVars

Next == AddToCart \/ RemoveFromCart \/ UpdateQuantity \/ ClearCart \/ EventDone

Spec == Init /\ [][Next]_vars


(* ====================== properties of the cart ledger ================== *)
\* Vocabulary used to state the properties, independent of the updaters.
IdsOf(items) == [i \in 1..Len(items) |-> items[i].id]
Positions(items, id) == {i \in 1..Len(items) : items[i].id = id}
QuantityOf(items, id) == items[CHOOSE i \in Positions(items, id) : TRUE].quantity
PriceOf(items, id) == items[CHOOSE i \in Positions(items, id) : TRUE].price

\* the sum of f[i] over i in S
RECURSIVE SumOver(_, _)
SumOver(f, S) ==
    IF S = {} THEN 0
    ELSE LET i == CHOOSE j \in S : TRUE
         IN  f[i] + SumOver(f, S \ {i})

SumOfQuantities(items) ==
    SumOver([i \in DOMAIN items |-> items[i].quantity], DOMAIN items)
SumOfPriceTimesQuantity(items) ==
    SumOver([i \in DOMAIN items |-> items[i].price * items[i].quantity], DOMAIN items)

\* items with the entry at position k taken out
Without(items, k) == SubSeq(items, 1, k - 1) \o SubSeq(items, k + 1, Len(items))

\* C1: after any sequence of addToCart / removeFromCart / updateQuantity
\* calls from the empty cart, every entry of cartItems has quantity >= 1.
C1_EveryQuantityAtLeastOne ==
    \A i \in 1..Len(cartItems) : cartItems[i].quantity >= 1

\* C2: in every reachable state cartItems holds at most one entry per
\* product id.
C2_AtMostOneEntryPerId ==
    \A i, j \in 1..Len(cartItems) :
        cartItems[i].id = cartItems[j].id => i = j

C2_Witness ==
    /\ lastCall.op = "addToCart"
    /\ InCart(prevItems, lastCall.id)
    /\ Len(cartItems) = 3

\* C3: addToCart(product, q) on a cart holding product.id with quantity n
\* leaves exactly one entry for the id, with quantity n + q (an omitted q
\* counts as 1); addToCart(P, 2) then addToCart(P, 3) on the empty cart
\* gives the single entry P with quantity 5.
C3_AddToExistingIncrements ==
    /\ (lastCall.op = "addToCart" /\ InCart(prevItems, lastCall.id)) =>
          /\ Cardinality(Positions(cartItems, lastCall.id)) = 1
          /\ QuantityOf(cartItems, lastCall.id)
                = QuantityOf(prevItems, lastCall.id) + lastCall.quantity
    /\ \A product \in Product :
          /\ addToCart(addToCart(<< >>, product, 2), product, 3)
                = <<[id |-> product.id, price |-> product.price, quantity |-> 5]>>
          /\ InCart(cartItems, product.id) =>
                QuantityOf(addToCartDefault(cartItems, product), product.id)
                   = QuantityOf(cartItems, product.id) + 1

C3_Witness ==
    /\ lastCall = [op |-> "addToCart", id |-> 1, price |-> 10, quantity |-> 3]
    /\ prevItems = <<[id |-> 1, price |-> 10, quantity |-> 2]>>
    /\ cartItems = <<[id |-> 1, price |-> 10, quantity |-> 5]>>

\* C4: updateQuantity(productId, newQuantity) on an id in the cart sets that
\* entry's quantity to max(1, newQuantity) for every integer newQuantity
\* (zero and negative values store 1) and leaves every other entry, and the
\* order of all entries, unchanged.
C4_UpdateQuantityClamps ==
    (lastCall.op = "updateQuantity" /\ InCart(prevItems, lastCall.id)) =>
        /\ Len(cartItems) = Len(prevItems)
        /\ \A i \in 1..Len(prevItems) :
              IF prevItems[i].id = lastCall.id
              THEN /\ cartItems[i].id = prevItems[i].id
                   /\ cartItems[i].price = prevItems[i].price
                   /\ cartItems[i].quantity
                         = (IF lastCall.quantity <= 0 THEN 1 ELSE lastCall.quantity)
              ELSE cartItems[i] = prevItems[i]

C4_Witness ==
    /\ lastCall.op = "updateQuantity"
    /\ lastCall.quantity <= 0
    /\ Len(prevItems) = 3
    /\ prevItems[2].id = lastCall.id
    /\ prevItems[2].quantity > 1
    /\ cartItems[2].quantity = 1

\* C5: in every reachable state the exposed totals equal a recomputation from
\* the current entries: cartTotalItems is the sum of quantity, cartTotalPrice
\* the sum of price * quantity (A with quantity 2 and B with quantity 1 give
\* 3 and A.price*2 + B.price*1); no sequence of operations makes them drift.
C5_TotalsMatchEntries ==
    /\ totalItems = SumOfQuantities(cartItems)
    /\ totalPrice = SumOfPriceTimesQuantity(cartItems)
    /\ (/\ Len(cartItems) = 2
        /\ cartItems[1].quantity = 2
        /\ cartItems[2].quantity = 1) =>
          /\ totalItems = 3
          /\ totalPrice = cartItems[1].price * 2 + cartItems[2].price * 1

C5_Witness ==
    /\ lastCall.op = "addToCart"
    /\ prevItems = <<[id |-> 1, price |-> 10, quantity |-> 2]>>
    /\ cartItems = <<[id |-> 1, price |-> 10, quantity |-> 2],
                     [id |-> 2, price |-> 25, quantity |-> 1]>>
    /\ totalItems = 3
    /\ totalPrice = 45

\* C6: removeFromCart(productId) deletes the entry with that id when present,
\* leaving all other entries and their relative order unchanged; when no
\* entry has the id the cart is unchanged.
C6_RemoveDeletesOnlyThatEntry ==
    lastCall.op = "removeFromCart" =>
        IF InCart(prevItems, lastCall.id)
        THEN \E k \in Positions(prevItems, lastCall.id) :
                cartItems = Without(prevItems, k)
        ELSE cartItems = prevItems

C6_Witness ==
    /\ lastCall.op = "removeFromCart"
    /\ Len(prevItems) = 3
    /\ prevItems[2].id = lastCall.id
    /\ cartItems = <<prevItems[1], prevItems[3]>>

\* C7: addToCart of an id not in the cart appends the new entry at the end
\* with exactly the given quantity; addToCart of an id in the cart changes no
\* entry's position; so the ids of cartItems are always in order of first
\* insertion since last removal.
C7_InsertionOrderKept ==
    /\ (lastCall.op = "addToCart" /\ ~InCart(prevItems, lastCall.id)) =>
          cartItems = prevItems \o <<[id |-> lastCall.id, price |-> lastCall.price,
                                      quantity |-> lastCall.quantity]>>
    /\ (lastCall.op = "addToCart" /\ InCart(prevItems, lastCall.id)) =>
          IdsOf(cartItems) = IdsOf(prevItems)
    /\ IdsOf(cartItems) = insertionOrder

C7_Witness ==
    /\ lastCall.op = "addToCart"
    /\ Len(prevItems) = 2
    /\ ~InCart(prevItems, lastCall.id)
    /\ Len(cartItems) = 3
    /\ cartItems[3].id = lastCall.id
    /\ cartItems[3].quantity = lastCall.quantity

\* C8: an entry's unit price is the price of the product object passed to the
\* addToCart call that created it: a later addToCart for the same id with a
\* different price changes only the quantity, and cartTotalPrice keeps using
\* the stored price.
C8_PriceCapturedAtCreation ==
    /\ \A i \in 1..Len(cartItems) :
          cartItems[i].price = createdPrice[cartItems[i].id]
    /\ (lastCall.op = "addToCart" /\ InCart(prevItems, lastCall.id)) =>
          /\ Len(cartItems) = Len(prevItems)
          /\ \A i \in 1..Len(prevItems) :
                /\ cartItems[i].id = prevItems[i].id
                /\ cartItems[i].price = prevItems[i].price
                /\ prevItems[i].id # lastCall.id =>
                      cartItems[i].quantity = prevItems[i].quantity
    /\ totalPrice = SumOver([i \in DOMAIN cartItems |->
                                createdPrice[cartItems[i].id] * cartItems[i].quantity],
                            DOMAIN cartItems)

C8_Witness ==
    /\ lastCall.op = "addToCart"
    /\ InCart(prevItems, lastCall.id)
    /\ lastCall.quantity > 0
    /\ lastCall.price # PriceOf(cartItems, lastCall.id)
    /\ PriceOf(cartItems, lastCall.id) = createdPrice[lastCall.id]

\* C9: updateQuantity(productId, newQuantity) when no entry has productId
\* leaves cartItems unchanged (same entries, quantities and order; no entry
\* is created), for every newQuantity.
C9_UpdateAbsentIsNoOp ==
    (lastCall.op = "updateQuantity" /\ ~InCart(prevItems, lastCall.id)) =>
        cartItems = prevItems

C9_Witness ==
    /\ lastCall.op = "updateQuantity"
    /\ ~InCart(prevItems, lastCall.id)
    /\ Len(prevItems) = 2
    /\ cartItems = prevItems

\* C10: clearCart() from any cart state yields the empty cart: cartItems
\* empty, cartTotalItems = 0 and cartTotalPrice = 0.
C10_ClearCartEmpties ==
    lastCall.op = "clearCart" =>
        /\ cartItems = << >>
        /\ totalItems = 0
        /\ totalPrice = 0

C10_Witness ==
    /\ lastCall.op = "clearCart"
    /\ Len(prevItems) = 3
    /\ cartItems = << >>


(* ======================= the product derivations ======================= *)
(* Strings are sequences of one-character strings, so that toLowerCase and  *)
(* includes can be computed.                                                *)
MaxTermLen == 2         \* longest search term tried
MaxProducts == 3        \* longest product list tried by the filters

Chars == {"a", "A", "b", "B"}

\* all strings over Chars of length at most n
Strings(n) == UNION {[1..k -> Chars] : k \in 0..n}

\* String.prototype.toLowerCase
lowerCaseOf(c) == IF c = "A" THEN "a" ELSE IF c = "B" THEN "b" ELSE c
toLowerCase(str) == [i \in 1..Len(str) |-> lowerCaseOf(str[i])]

\* String.prototype.includes
includes(str, searchString) ==
    \E k \in 0..(Len(str) - Len(searchString)) :
        \A i \in 1..Len(searchString) : str[k + i] = searchString[i]

\* useParams may leave categoryName undefined; undefined and "" are falsy.
Undefined == <<"undefined">>
Truthy(str) == str # Undefined /\ str # << >>

\* Sample products (types/product: id, title, description, category,
\* rating.rate in tenths).
SampleProducts ==
    { [id |-> 1, title |-> <<"A", "b">>, description |-> << >>,
       category |-> <<"a">>, rate |-> 45],
      [id |-> 2, title |-> <<"b">>, description |-> <<"B", "a">>,
       category |-> <<"B">>, rate |-> 21],
      [id |-> 3, title |-> << >>, description |-> <<"a">>,
       category |-> <<"a", "b">>, rate |-> 49],
      [id |-> 4, title |-> <<"B">>, description |-> <<"b">>,
       category |-> <<"A">>, rate |-> 30] }

ProductLists(n) == UNION {[1..k -> SampleProducts] : k \in 0..n}

\* Faulty variant of the category stage: compares ignoring case.
categoryStage_IgnoresCase(productsToDisplay, categoryName) ==
    IF Truthy(categoryName)
    THEN SelectSeq(productsToDisplay,
                   LAMBDA product : toLowerCase(product.category) = toLowerCase(categoryName))
    ELSE productsToDisplay

\* Stage 1 of CategoryProductsPage.filteredProducts:
\* if (categoryName) filter(product => product.category === categoryName)
categoryStage(productsToDisplay, categoryName) ==
    IF Truthy(categoryName)
    THEN SelectSeq(productsToDisplay, LAMBDA product : product.category = categoryName)
    ELSE productsToDisplay

\* The filter callback shared by the three text filters.
matchesSearch(product, lowerCaseSearchTerm) ==
    \/ includes(toLowerCase(product.title), lowerCaseSearchTerm)
    \/ includes(toLowerCase(product.description), lowerCaseSearchTerm)
    \/ includes(toLowerCase(product.category), lowerCaseSearchTerm)

\* Faulty variants of the text stage.  (1) the loop starts one element late.
searchStage_SkipsFirst(productsToDisplay, term) ==
    IF Truthy(term)
    THEN LET lowerCaseSearchTerm == toLowerCase(term)
         IN  SelectSeq(SubSeq(productsToDisplay, 2, Len(productsToDisplay)),
                       LAMBDA product : matchesSearch(product, lowerCaseSearchTerm))
    ELSE productsToDisplay

\* (2) the search term is not lower-cased before matching.
searchStage_TermNotLowered(productsToDisplay, term) ==
    IF Truthy(term)
    THEN SelectSeq(productsToDisplay, LAMBDA product : matchesSearch(product, term))
    ELSE productsToDisplay

\* (3) the matches are returned last-first.
searchStage_Reverses(productsToDisplay, term) ==
    IF Truthy(term)
    THEN LET lowerCaseSearchTerm == toLowerCase(term)
             matching == SelectSeq(productsToDisplay,
                             LAMBDA product : matchesSearch(product, lowerCaseSearchTerm))
         IN  [i \in 1..Len(matching) |-> matching[Len(matching) + 1 - i]]
    ELSE productsToDisplay

\* Stage 2 of CategoryProductsPage.filteredProducts, which is also the whole
\* of HomePage.filteredProducts and SearchProvider.filteredProducts.
searchStage(productsToDisplay, term) ==
    IF Truthy(term)
    THEN LET lowerCaseSearchTerm == toLowerCase(term)
         IN  SelectSeq(productsToDisplay,
                       LAMBDA product : matchesSearch(product, lowerCaseSearchTerm))
    ELSE productsToDisplay

\* CategoryProductsPage.filteredProducts
categoryFilteredProducts(allProducts, categoryName, term) ==
    searchStage(categoryStage(allProducts, categoryName), term)

(* ------------------ the filters on their own: SpecFilter --------------- *)
FilterArgs ==
    [products : ProductLists(MaxProducts),
     categoryName : {Undefined} \cup Strings(1) \cup {<<"a", "b">>},
     searchTerm : Strings(MaxTermLen)]

InitFilter ==
    /\ cartItems = << >>
    /\ totalItems = 0
    /\ totalPrice = 0
    /\ lastCall = NoCall
    /\ prevItems = << >>
    /\ insertionOrder = << >>
    /\ createdPrice = [i \in ProductIds |-> 0]
    /\ pc = "call"
    /\ args \in FilterArgs
    /\ result = << >>
    /\ ViewsInit

\* Each filter is applied once, and once more to its own result.
ApplyFilters ==
    /\ pc = "call"
    /\ pc' = "return"
    /\ LET byCategory == categoryStage(args.products, args.categoryName)
           bySearch == searchStage(args.products, args.searchTerm)
           byBoth == categoryFilteredProducts(args.products, args.categoryName,
                                              args.searchTerm)
       IN  result' =
             [byCategory |-> byCategory,
              bySearch |-> bySearch,
              byBoth |-> byBoth,
              byCategoryTwice |-> categoryStage(byCategory, args.categoryName),
              bySearchTwice |-> searchStage(bySearch, args.searchTerm),
              byBothTwice |-> categoryFilteredProducts(byBoth, args.categoryName,
                                                       args.searchTerm)]
    /\ UNCHANGED <<args, cartVars, viewVars>>

SpecFilter == InitFilter /\ [][ApplyFilters]_vars

(* --------------------- properties of the filters ----------------------- *)
\* The j-th smallest element of a set of positions, and the subsequence of
\* list at the positions in I.
NthOf(I, j) == CHOOSE i \in I : Cardinality({x \in I : x < i}) = j - 1
Restrict(list, I) == [j \in 1..Cardinality(I) |-> list[NthOf(I, j)]]

\* C12: for every product sequence P and category c the category filter
\* returns exactly the products of P whose category equals c, compared
\* exactly and case-sensitively, in P's order; with c empty or unset it
\* returns P unchanged.
C12_CategoryFilterExact ==
    pc = "return" =>
        IF args.categoryName = Undefined \/ Len(args.categoryName) = 0
        THEN result.byCategory = args.products
        ELSE result.byCategory =
                Restrict(args.products,
                         {i \in 1..Len(args.products) :
                             /\ Len(args.products[i].category) = Len(args.categoryName)
                             /\ \A k \in 1..Len(args.categoryName) :
                                   args.products[i].category[k] = args.categoryName[k]})

C12_Witness ==
    /\ pc = "return"
    /\ args.categoryName = <<"a">>
    /\ Len(args.products) = 3
    /\ args.products[1].category = <<"A">>
    /\ args.products[2].category = <<"a">>
    /\ args.products[3].category = <<"a", "b">>
    /\ result.byCategory = <<args.products[2]>>

\* C15: applying the text filter, the category filter or their two-stage
\* composition again, with the same arguments, to its own result gives the
\* same sequence as applying it once.
C15_FiltersIdempotent ==
    pc = "return" =>
        /\ result.bySearchTwice = result.bySearch
        /\ result.byCategoryTwice = result.byCategory
        /\ result.byBothTwice = result.byBoth

C15_Witness ==
    /\ pc = "return"
    /\ Len(args.products) = 3
    /\ Len(result.bySearch) = 2
    /\ Len(result.byCategory) = 1
    /\ Len(result.byBoth) = 1
    /\ args.searchTerm = <<"A", "B">>
    /\ result.byBothTwice = result.byBoth


(* ------------------- related products: SpecRelated --------------------- *)
MaxCatalog == 7         \* longest catalog tried by the related-products derivation

Min(a, b) == IF a <= b THEN a ELSE b

\* Array.prototype.slice(start, end) with 0 <= start <= end
slice(arr, start, end) == SubSeq(arr, start + 1, Min(end, Len(arr)))

\* .slice(0, 5)
relatedLimit == 5

\* Faulty variant: the reference product itself is not excluded.
filteredRelated_KeepsReference(allProducts, fetchedProduct) ==
    slice(SelectSeq(allProducts, LAMBDA p : p.category = fetchedProduct.category),
          0, relatedLimit)

\* fetchProductDetails: allProducts.filter(p => p.category ===
\* fetchedProduct.category && p.id !== fetchedProduct.id).slice(0, 5)
filteredRelated(allProducts, fetchedProduct) ==
    slice(SelectSeq(allProducts,
                    LAMBDA p : /\ p.category = fetchedProduct.category
                               /\ p.id # fetchedProduct.id),
          0, relatedLimit)

\* Catalogs in fetch order: the product at position i has id i.
CatalogCategories == {<<"a">>, <<"b">>}
CatalogsOfLength(k) ==
    {[i \in 1..k |-> [id |-> i, category |-> c[i]]] : c \in [1..k -> CatalogCategories]}
RelatedArgs ==
    [allProducts : UNION {CatalogsOfLength(k) : k \in 0..MaxCatalog},
     fetchedProduct : [id : 1..MaxCatalog, category : CatalogCategories]]

InitRelated ==
    /\ cartItems = << >>
    /\ totalItems = 0
    /\ totalPrice = 0
    /\ lastCall = NoCall
    /\ prevItems = << >>
    /\ insertionOrder = << >>
    /\ createdPrice = [i \in ProductIds |-> 0]
    /\ pc = "call"
    /\ args \in RelatedArgs
    /\ result = << >>
    /\ ViewsInit

ApplyRelated ==
    /\ pc = "call"
    /\ pc' = "return"
    /\ result' = filteredRelated(args.allProducts, args.fetchedProduct)
    /\ UNCHANGED <<args, cartVars, viewVars>>

SpecRelated == InitRelated /\ [][ApplyRelated]_vars

\* C13: for a reference product r and catalog A the related-products list is
\* the first (at most 5) products of A, in A's order, whose category equals
\* r.category and whose id differs from r.id; it never contains r and never
\* has more than 5 entries.
C13_RelatedProducts ==
    pc = "return" =>
        LET A == args.allProducts
            r == args.fetchedProduct
            candidates == {i \in 1..Len(A) : A[i].category = r.category /\ A[i].id # r.id}
            firstFive == {i \in candidates : Cardinality({x \in candidates : x < i}) < 5}
        IN  /\ result = Restrict(A, firstFive)
            /\ Len(result) <= 5
            /\ \A j \in 1..Len(result) : result[j].id # r.id

C13_Witness ==
    /\ pc = "return"
    /\ Len(args.allProducts) = 7
    /\ \A i \in 1..7 : args.allProducts[i].category = args.fetchedProduct.category
    /\ args.fetchedProduct.id = 3
    /\ Len(result) = 5
    /\ [j \in 1..5 |-> result[j].id] = <<1, 2, 4, 5, 6>>


(* ------------------- featured products: SpecFeatured ------------------- *)
MaxRated == 4           \* longest catalog tried by the featured-products derivation

\* (a, b) => b.rating.rate - a.rating.rate
compareFn(a, b) == b.rate - a.rate

\* Array.prototype.sort(compareFn) is stable: an element goes behind every
\* element already placed that does not compare greater than it.
insertSorted(sorted, x) ==
    LET k == Cardinality({i \in 1..Len(sorted) : compareFn(sorted[i], x) <= 0})
    IN  SubSeq(sorted, 1, k) \o <<x>> \o SubSeq(sorted, k + 1, Len(sorted))

RECURSIVE sortInto(_, _)
sortInto(sorted, rest) ==
    IF rest = << >> THEN sorted
    ELSE sortInto(insertSorted(sorted, Head(rest)), Tail(rest))

sort(arr) == sortInto(<< >>, arr)

\* sortedProducts.slice(0, 3)
featuredCount == 3

\* Faulty variant: allProducts.sort(...) sorts the fetched array itself, which
\* is the array stored in products.
homeFetchSuccess_SortsInPlace(allProducts) ==
    [products |-> sort(allProducts),
     featuredProducts |-> slice(sort(allProducts), 0, featuredCount)]

\* HomePage.fetchProducts after the await: setProducts(allProducts);
\* sortedProducts = [...allProducts].sort(...); setFeaturedProducts(slice(0, 3))
homeFetchSuccess(allProducts) ==
    [products |-> allProducts,
     featuredProducts |-> slice(sort(allProducts), 0, featuredCount)]

\* Catalogs in fetch order with ratings (in tenths): position i has id i.
Rates == {21, 30, 45, 49}
RatedCatalogs ==
    UNION {{[i \in 1..k |-> [id |-> i, rate |-> r[i]]] : r \in [1..k -> Rates]}
              : k \in 0..MaxRated}

InitFeatured ==
    /\ cartItems = << >>
    /\ totalItems = 0
    /\ totalPrice = 0
    /\ lastCall = NoCall
    /\ prevItems = << >>
    /\ insertionOrder = << >>
    /\ createdPrice = [i \in ProductIds |-> 0]
    /\ pc = "call"
    /\ args \in RatedCatalogs
    /\ result = << >>
    /\ ViewsInit

ApplyFeatured ==
    /\ pc = "call"
    /\ pc' = "return"
    /\ result' = homeFetchSuccess(args)
    /\ UNCHANGED <<args, cartVars, viewVars>>

SpecFeatured == InitFeatured /\ [][ApplyFeatured]_vars

\* C14: featured-products is the top 3 products of the fetched catalog by
\* rating.rate descending (all of them when there are fewer than 3), ties in
\* their original relative order, and the stored catalog is not reordered;
\* for rates [4.5, 2.1, 4.9, 3.0] it is the 4.9, 4.5, 3.0-rated products in
\* that order.
C14_FeaturedTopThree ==
    pc = "return" =>
        LET A == args
            F == result.featuredProducts
            \* position k comes before position i in the ranking
            Outranks(k, i) == \/ A[k].rate > A[i].rate
                              \/ A[k].rate = A[i].rate /\ k < i
            Rank(i) == Cardinality({k \in 1..Len(A) : Outranks(k, i)})
        IN  /\ result.products = A
            /\ Len(F) = (IF Len(A) < 3 THEN Len(A) ELSE 3)
            /\ \A j \in 1..Len(F) :
                  \E i \in 1..Len(A) : Rank(i) = j - 1 /\ F[j] = A[i]
            /\ [i \in 1..Len(A) |-> A[i].rate] = <<45, 21, 49, 30>> =>
                  [j \in 1..Len(F) |-> F[j].id] = <<3, 1, 4>>

C14_Witness ==
    /\ pc = "return"
    /\ [i \in 1..Len(args) |-> args[i].rate] = <<45, 21, 49, 30>>
    /\ [j \in 1..Len(result.featuredProducts) |-> result.featuredProducts[j].rate]
          = <<49, 45, 30>>
    /\ result.products = args


(* ========================= the fetching views ========================== *)
(* A step is one thing React runs to completion: a navigation (the page     *)
(* mounts or sees its route parameter change, and its effect starts a       *)
(* fetch), a change of the search term, or the continuation of an async     *)
(* function after the awaited api call fulfils or rejects.  The memoized    *)
(* filteredProducts of a component is recomputed in the step that changes   *)
(* one of its dependencies.                                                 *)
MaxFetches == 2     \* fetches a page starts between its mount and its unmount

\* What the API serves: the sample products and a second one of category "a".
CatalogProducts ==
    SampleProducts \cup
        { [id |-> 5, title |-> <<"a">>, description |-> << >>,
           category |-> <<"a">>, rate |-> 38] }
productWithId(id) == CHOOSE p \in CatalogProducts : p.id = id

\* Response bodies of GET /products, GET /products/categories, and the body
\* of GET /products/:id for an id the catalog lacks (axios yields "" for an
\* empty body and null for the JSON text null).
Catalogs == { << >>, <<productWithId(1), productWithId(5), productWithId(2)>> }
CategoryLists == { << <<"a">>, <<"B">> >> }
emptyBody == [body |-> ""]
NoResult == {null, emptyBody}

\* What axios rejects with: Error instances; the second is the one produced
\* when the configured timeout of 10000 ms passes.
Rejections ==
    { [isError |-> TRUE, message |-> "Network Error"],
      [isError |-> TRUE, message |-> "timeout of 10000ms exceeded"] }
NoReason == [isError |-> FALSE, message |-> ""]

Fulfilled(data) == [status |-> "fulfilled", data |-> data, reason |-> NoReason]
Rejected(reason) == [status |-> "rejected", data |-> null, reason |-> reason]

\* api.getProductById(id): response.data
getProductById(id) ==
    IF \E p \in CatalogProducts : p.id = id THEN {productWithId(id)} ELSE NoResult

\* The outcomes of an awaited call.
Outcomes(req) ==
    {Rejected(r) : r \in Rejections} \cup
    {Fulfilled(d) : d \in CASE req.call = "getAllProducts" -> Catalogs
                            [] req.call = "getProductById" -> getProductById(req.productId)
                            [] req.call = "getCategories" -> CategoryLists}

Settled(req, outcome) ==
    [status |-> outcome.status, owner |-> req.owner, call |-> req.call,
     productId |-> req.productId, fetched |-> req.fetched, data |-> outcome.data]

\* catch (err): err instanceof Error ? err.message : <the component's fallback>
errorMessage(err, fallback) == IF err.isError THEN err.message ELSE fallback
setError(state, message) == [state EXCEPT !.error = [message |-> message]]

\* Faulty variant of the finally clause: loading is left as it was.
afterFinally_KeepsLoading(state) == state

\* finally { setLoading(false) }
afterFinally(state) == [state EXCEPT !.loading = FALSE]

\* Variant with cancellation: the outcome of a call issued for another
\* productId than the current one is dropped.
cancelled_WhenSuperseded(req) ==
    req.call = "getProductById" /\ req.productId # route.productId

\* The effects return no cleanup and keep no flag: no outcome is dropped.
cancelled(req) == FALSE

\* useMemo(() => ..., [products, searchTerm]) and its two siblings
renderHomePage(state, term) ==
    [state EXCEPT !.filteredProducts = searchStage(state.products, term)]
\* Faulty variant of renderCategoryPage: the category stage is left out.
renderCategoryPage_TextOnly(state, categoryName, term) ==
    [state EXCEPT !.filteredProducts = searchStage(state.allProducts, term)]

renderCategoryPage(state, categoryName, term) ==
    [state EXCEPT !.filteredProducts =
                      categoryFilteredProducts(state.allProducts, categoryName, term)]
renderSearchProvider(state, term) ==
    [state EXCEPT !.filteredProducts = searchStage(state.allProducts, term)]

\* Requests whose owner stays mounted when the page changes.
shellRequests ==
    SelectSeq(requests, LAMBDA q : q.owner \in {"Header", "SearchProvider"})
without(i) == SubSeq(requests, 1, i - 1) \o SubSeq(requests, i + 1, Len(requests))

CategoryParams == {<<"a">>, <<"B">>}
DetailParams == {1, 2, 9}       \* 9: an id the catalog lacks
AppTerms == {<< >>, <<"A">>}

(* ------------------------------ navigation ----------------------------- *)
\* <Route path="/" element={<HomePage />} />: the page that was shown
\* unmounts (what its pending calls deliver later reaches no component),
\* HomePage mounts and its effect calls fetchProducts.
OpenHome ==
    /\ route.path # "/"
    /\ route' = Route("/", NoProductId, NoCategoryName)
    /\ homePage' = initialHomePage
    /\ categoryPage' = initialCategoryPage
    /\ detailPage' = initialDetailPage
    /\ requests' = Append(shellRequests,
                          Request("HomePage", "getAllProducts", NoProductId, null))
    /\ issued' = 1
    /\ lastSettled' = NoSettle
    /\ UNCHANGED <<searchTerm, searchProvider, header, cartVars, derivationVars,
                   selectedCategory>>

\* <Route path="/products/category/:categoryName" ... />: CategoryProductsPage
\* mounts, or stays mounted and sees categoryName change; either way the
\* effect keyed on [categoryName] runs setLoading(true); setError(null) and
\* calls api.getAllProducts().
navigateToCategory(categoryName) ==
    /\ route.categoryName # categoryName
    /\ LET mounted == route.path = "/products/category/:categoryName"
           before == IF mounted THEN categoryPage ELSE initialCategoryPage
       IN  /\ mounted => issued < MaxFetches
           /\ categoryPage' =
                  renderCategoryPage([before EXCEPT !.loading = TRUE, !.error = null],
                                     categoryName, searchTerm)
           /\ requests' =
                  Append(IF mounted THEN requests ELSE shellRequests,
                         Request("CategoryProductsPage", "getAllProducts",
                                 NoProductId, null))
           /\ issued' = IF mounted THEN issued + 1 ELSE 1
    /\ route' = Route("/products/category/:categoryName", NoProductId, categoryName)
    /\ homePage' = initialHomePage
    /\ detailPage' = initialDetailPage
    /\ lastSettled' = NoSettle
    /\ UNCHANGED <<searchTerm, searchProvider, header, cartVars, derivationVars>>

\* A <Link to={`/products/category/${category}`}> of the mobile menu, or the
\* URL typed or followed from outside: the route changes and nothing else
\* is called.
OpenCategory(categoryName) ==
    /\ navigateToCategory(categoryName)
    /\ UNCHANGED selectedCategory

\* CategoryDropdown.handleCategoryClick(category), for a category the header
\* has loaded: setSelectedCategory(category); navigate(...).  Navigating to
\* the URL the router is already at changes nothing.
handleCategoryClick(category) ==
    /\ \E k \in 1..Len(header.categories) : header.categories[k] = category
    /\ selectedCategory' = category
    /\ IF route.categoryName # category
       THEN navigateToCategory(category)
       ELSE UNCHANGED <<route, searchTerm, searchProvider, header, homePage,
                        categoryPage, detailPage, requests, issued, lastSettled,
                        cartVars, derivationVars>>

\* The condition of CategoryProductsPage's synchronisation effect.
syncNeeded ==
    /\ route.path = "/products/category/:categoryName"
    /\ Truthy(route.categoryName)
    /\ route.categoryName # selectedCategory

\* Faulty variant of the synchronisation effect: the condition is evaluated
\* and the setter is not called.
SyncCategory_KeepsSelection ==
    /\ syncNeeded
    /\ lastSettled' = NoSettle
    /\ UNCHANGED <<route, searchTerm, selectedCategory, searchProvider, header,
                   homePage, categoryPage, detailPage, requests, issued, cartVars,
                   derivationVars>>

\* The synchronisation effect of CategoryProductsPage, which runs after the
\* render that saw categoryName or selectedCategory change:
\* if (categoryName && categoryName !== selectedCategory)
\*     setSelectedCategory(categoryName)
SyncCategory ==
    /\ syncNeeded
    /\ selectedCategory' = route.categoryName
    /\ lastSettled' = NoSettle
    /\ UNCHANGED <<route, searchTerm, searchProvider, header, homePage,
                   categoryPage, detailPage, requests, issued, cartVars,
                   derivationVars>>

\* <Route path="/products/:productId" ... />: ProductDetailPage mounts, or
\* stays mounted and sees productId change; the effect keyed on [productId]
\* runs setLoading(true); setError(null) and calls api.getProductById.
OpenDetail(productId) ==
    /\ route.productId # productId
    /\ LET mounted == route.path = "/products/:productId"
           before == IF mounted THEN detailPage ELSE initialDetailPage
       IN  /\ mounted => issued < MaxFetches
           /\ detailPage' = [before EXCEPT !.loading = TRUE, !.error = null]
           /\ requests' =
                  Append(IF mounted THEN requests ELSE shellRequests,
                         Request("ProductDetailPage", "getProductById", productId, null))
           /\ issued' = IF mounted THEN issued + 1 ELSE 1
    /\ route' = Route("/products/:productId", productId, NoCategoryName)
    /\ homePage' = initialHomePage
    /\ categoryPage' = initialCategoryPage
    /\ lastSettled' = NoSettle
    /\ UNCHANGED <<searchTerm, searchProvider, header, cartVars, derivationVars,
                   selectedCategory>>

\* Faulty variant of OpenCart: the cart provider is mounted inside the route
\* and starts again with each navigation.
OpenCart_RemountsCart ==
    /\ route.path # "/Cart"
    /\ route' = Route("/Cart", NoProductId, NoCategoryName)
    /\ homePage' = initialHomePage
    /\ categoryPage' = initialCategoryPage
    /\ detailPage' = initialDetailPage
    /\ requests' = shellRequests
    /\ issued' = 0
    /\ lastSettled' = NoSettle
    /\ cartItems' = << >>
    /\ totalItems' = 0
    /\ totalPrice' = 0
    /\ insertionOrder' = << >>
    /\ createdPrice' = [i \in ProductIds |-> 0]
    /\ UNCHANGED <<searchTerm, searchProvider, header, lastCall, prevItems,
                   derivationVars, selectedCategory>>

\* <Route path="/Cart" element={<CartPage />} />: a page that fetches nothing.
OpenCart ==
    /\ route.path # "/Cart"
    /\ route' = Route("/Cart", NoProductId, NoCategoryName)
    /\ homePage' = initialHomePage
    /\ categoryPage' = initialCategoryPage
    /\ detailPage' = initialDetailPage
    /\ requests' = shellRequests
    /\ issued' = 0
    /\ lastSettled' = NoSettle
    /\ UNCHANGED <<searchTerm, searchProvider, header, cartVars, derivationVars,
                   selectedCategory>>

\* setSearchTerm(term), from the search bar
SetSearchTerm(term) ==
    /\ searchTerm' = term
    /\ searchProvider' = renderSearchProvider(searchProvider, term)
    /\ homePage' = renderHomePage(homePage, term)
    /\ categoryPage' = IF route.path = "/products/category/:categoryName"
                       THEN renderCategoryPage(categoryPage, route.categoryName, term)
                       ELSE categoryPage
    /\ lastSettled' = NoSettle
    /\ UNCHANGED <<route, header, detailPage, requests, issued, cartVars, derivationVars,
                   selectedCategory>>

(* ------------------------- outcomes of the calls ----------------------- *)
\* Header.getCategories after the await
HeaderSettles(i, outcome) ==
    /\ requests[i].owner = "Header"
    /\ header' = IF outcome.status = "fulfilled"
                 THEN [header EXCEPT !.categories = outcome.data]
                 ELSE header        \* catch: console.error(...) and nothing else
    /\ requests' = without(i)
    /\ lastSettled' = Settled(requests[i], outcome)
    /\ UNCHANGED <<route, searchTerm, searchProvider, homePage, categoryPage,
                   detailPage, issued, cartVars, derivationVars,
                   selectedCategory>>

\* SearchProvider.fetchAllProductsData after the await
SearchProviderSettles(i, outcome) ==
    /\ requests[i].owner = "SearchProvider"
    /\ LET after ==
             IF outcome.status = "fulfilled"
             THEN [searchProvider EXCEPT !.allProducts = outcome.data,
                                         !.searchError = null]
             ELSE [searchProvider EXCEPT !.searchError =
                      [message |-> errorMessage(outcome.reason,
                                      "An unknown error occurred during product fetch.")]]
       IN  searchProvider' =
               renderSearchProvider([after EXCEPT !.searchLoading = FALSE], searchTerm)
    /\ requests' = without(i)
    /\ lastSettled' = Settled(requests[i], outcome)
    /\ UNCHANGED <<route, searchTerm, header, homePage, categoryPage, detailPage,
                   issued, cartVars, derivationVars,
                   selectedCategory>>

\* HomePage.fetchProducts after the await
HomePageSettles(i, outcome) ==
    /\ requests[i].owner = "HomePage"
    /\ LET success == homeFetchSuccess(outcome.data)
           after ==
             IF outcome.status = "fulfilled"
             THEN [homePage EXCEPT !.products = success.products,
                                   !.featuredProducts = success.featuredProducts]
             ELSE setError(homePage,
                           errorMessage(outcome.reason, "An unknown error occurred"))
       IN  homePage' = renderHomePage(afterFinally(after), searchTerm)
    /\ requests' = without(i)
    /\ lastSettled' = Settled(requests[i], outcome)
    /\ UNCHANGED <<route, searchTerm, searchProvider, header, categoryPage,
                   detailPage, issued, cartVars, derivationVars,
                   selectedCategory>>

\* Faulty variant of CategoryPageSettles: the catch clause calls
\* fetchProducts again, so a rejected call is replaced by a new one.
CategoryPageSettles_Retries(i, outcome) ==
    /\ requests[i].owner = "CategoryProductsPage"
    /\ LET after ==
             IF outcome.status = "fulfilled"
             THEN [categoryPage EXCEPT !.allProducts = outcome.data]
             ELSE setError(categoryPage,
                           errorMessage(outcome.reason,
                               "An unknown error occurred while fetching products."))
       IN  categoryPage' =
               renderCategoryPage(afterFinally(after), route.categoryName, searchTerm)
    /\ requests' = IF outcome.status = "fulfilled"
                   THEN without(i)
                   ELSE Append(without(i), requests[i])
    /\ lastSettled' = Settled(requests[i], outcome)
    /\ UNCHANGED <<route, searchTerm, searchProvider, header, homePage,
                   detailPage, issued, cartVars, derivationVars,
                   selectedCategory>>

\* CategoryProductsPage.fetchProducts after the await
CategoryPageSettles(i, outcome) ==
    /\ requests[i].owner = "CategoryProductsPage"
    /\ LET after ==
             IF outcome.status = "fulfilled"
             THEN [categoryPage EXCEPT !.allProducts = outcome.data]
             ELSE setError(categoryPage,
                           errorMessage(outcome.reason,
                               "An unknown error occurred while fetching products."))
       IN  categoryPage' =
               IF cancelled(requests[i])
               THEN categoryPage
               ELSE renderCategoryPage(afterFinally(after), route.categoryName,
                                       searchTerm)
    /\ requests' = without(i)
    /\ lastSettled' = Settled(requests[i], outcome)
    /\ UNCHANGED <<route, searchTerm, searchProvider, header, homePage,
                   detailPage, issued, cartVars, derivationVars,
                   selectedCategory>>

\* fetchProductDetails after await api.getProductById(Number(productId)):
\* setProduct; setQuantity(1); then api.getAllProducts() is called and
\* awaited.  A rejection goes to catch and finally.
DetailByIdSettles(i, outcome) ==
    /\ requests[i].owner = "ProductDetailPage"
    /\ requests[i].call = "getProductById"
    /\ IF cancelled(requests[i])
       THEN /\ detailPage' = detailPage
            /\ requests' = without(i)
       ELSE IF outcome.status = "fulfilled"
       THEN /\ detailPage' = [detailPage EXCEPT !.product = outcome.data,
                                                !.quantity = 1]
            /\ requests' = [requests EXCEPT ![i] =
                               Request("ProductDetailPage", "getAllProducts",
                                       @.productId, outcome.data)]
       ELSE /\ detailPage' =
                  afterFinally(setError(detailPage,
                      errorMessage(outcome.reason,
                          "An unknown error occurred while fetching product details.")))
            /\ requests' = without(i)
    /\ lastSettled' = Settled(requests[i], outcome)
    /\ UNCHANGED <<route, searchTerm, searchProvider, header, homePage,
                   categoryPage, issued, cartVars, derivationVars,
                   selectedCategory>>

\* fetchProductDetails after await api.getAllProducts(): the filter callback
\* reads fetchedProduct.category, which throws a TypeError when fetchedProduct
\* is null and the callback runs at all; of "" it reads undefined, which no
\* product's category equals.
DetailAllSettles(i, outcome) ==
    /\ requests[i].owner = "ProductDetailPage"
    /\ requests[i].call = "getAllProducts"
    /\ LET fetchedProduct == requests[i].fetched
           allProducts == outcome.data
           after ==
             IF outcome.status = "rejected"
             THEN setError(detailPage,
                      errorMessage(outcome.reason,
                          "An unknown error occurred while fetching product details."))
             ELSE IF fetchedProduct = null /\ allProducts # << >>
             THEN setError(detailPage,
                      "Cannot read properties of null (reading 'category')")
             ELSE [detailPage EXCEPT !.relatedProducts =
                      IF fetchedProduct \in NoResult
                      THEN << >>
                      ELSE filteredRelated(allProducts, fetchedProduct)]
       IN  detailPage' = afterFinally(after)
    /\ requests' = without(i)
    /\ lastSettled' = Settled(requests[i], outcome)
    /\ UNCHANGED <<route, searchTerm, searchProvider, header, homePage,
                   categoryPage, issued, cartVars, derivationVars,
                   selectedCategory>>

\* The call at position i delivers one of its outcomes.
Settle(i) ==
    \E outcome \in Outcomes(requests[i]) :
        \/ HeaderSettles(i, outcome)
        \/ SearchProviderSettles(i, outcome)
        \/ HomePageSettles(i, outcome)
        \/ CategoryPageSettles(i, outcome)
        \/ DetailByIdSettles(i, outcome)
        \/ DetailAllSettles(i, outcome)

\* Effects are flushed before the next event or outcome is handled, so while
\* the synchronisation effect is due it is the next step.
NextApp ==
    \/ SyncCategory
    \/ ~syncNeeded /\ OpenHome
    \/ ~syncNeeded /\ \E categoryName \in CategoryParams : OpenCategory(categoryName)
    \/ ~syncNeeded /\ \E category \in CategoryParams : handleCategoryClick(category)
    \/ ~syncNeeded /\ \E productId \in DetailParams : OpenDetail(productId)
    \/ ~syncNeeded /\ OpenCart
    \/ ~syncNeeded /\ \E term \in AppTerms : SetSearchTerm(term)
    \/ ~syncNeeded /\ \E i \in 1..Len(requests) : Settle(i)

SpecApp == Init /\ [][NextApp]_vars

\* axios gives up on a call after its timeout, so the oldest pending call
\* always delivers an outcome.
SettleOldest == requests # << >> /\ ~syncNeeded /\ Settle(1)
FairSpecApp == SpecApp /\ WF_vars(SettleOldest) /\ WF_vars(SyncCategory)

(* ------------- the home view over every product list: SpecHome --------- *)
\* The home view alone, with GET /products answering any product list of up
\* to MaxProducts products and the search bar producing any term.
NextHome ==
    \/ \E i \in 1..Len(requests), allProducts \in ProductLists(MaxProducts) :
           HomePageSettles(i, Fulfilled(allProducts))
    \/ \E i \in 1..Len(requests) :
           \E outcome \in Outcomes(requests[i]) : SearchProviderSettles(i, outcome)
    \/ \E term \in Strings(MaxTermLen) : SetSearchTerm(term)

SpecHome == Init /\ [][NextHome]_vars

\* Two characters that differ at most in case, and: str contains term
\* when case is ignored.
SameLetter(x, y) ==
    \/ x = y
    \/ {x, y} = {"a", "A"}
    \/ {x, y} = {"b", "B"}
ContainsIgnoringCase(str, term) ==
    \E k \in 0..(Len(str) - Len(term)) :
        \A i \in 1..Len(term) : SameLetter(str[k + i], term[i])
TextFilterOf(list, term) ==
    Restrict(list, {i \in 1..Len(list) :
                        \/ ContainsIgnoringCase(list[i].title, term)
                        \/ ContainsIgnoringCase(list[i].description, term)
                        \/ ContainsIgnoringCase(list[i].category, term)})

\* C11: the list the home view displays (and the one the search provider
\* offers) is the held product list restricted, in its order, to the
\* products whose title, description or category contains searchTerm when
\* case is ignored; with the empty term it is the held list itself.
C11_TextFilterDisplayed ==
    /\ homePage.filteredProducts = TextFilterOf(homePage.products, searchTerm)
    /\ searchProvider.filteredProducts =
           TextFilterOf(searchProvider.allProducts, searchTerm)
    /\ searchTerm = << >> =>
           /\ homePage.filteredProducts = homePage.products
           /\ searchProvider.filteredProducts = searchProvider.allProducts

\* Three products are held, the term "AB" keeps the first and the third
\* (title "Ab", category "ab") and drops the second.
C11_Witness ==
    /\ Len(homePage.products) = 3
    /\ searchTerm = <<"A", "B">>
    /\ Len(homePage.filteredProducts) = 2
    /\ homePage.filteredProducts[1] = homePage.products[1]
    /\ homePage.filteredProducts[2] = homePage.products[3]
    /\ homePage.loading = FALSE

(* ------------------- properties of the fetching views ------------------ *)
\* The step just taken delivered the rejection of a call awaited by owner.
FailedFetchOf(owner) ==
    lastSettled.status = "rejected" /\ lastSettled.owner = owner

\* C16: right after a catalog fetch of a view has failed, the product list
\* that view holds is the empty sequence: products (and featuredProducts) of
\* the home view, allProducts of the category view, relatedProducts of the
\* product-detail view.
C16_NoCatalogDataAfterFailure ==
    /\ FailedFetchOf("HomePage") =>
           homePage.products = << >> /\ homePage.featuredProducts = << >>
    /\ FailedFetchOf("CategoryProductsPage") => categoryPage.allProducts = << >>
    /\ FailedFetchOf("ProductDetailPage") => detailPage.relatedProducts = << >>

\* The situations the claim names, as the code leaves them.  The category
\* view's second fetch (after a category change) fails while the catalog of
\* the first is still held:
C16_StaleCategoryCatalog ==
    /\ FailedFetchOf("CategoryProductsPage")
    /\ issued = 2
    /\ Len(requests) = Len(shellRequests)
    /\ categoryPage.allProducts # << >>
    /\ categoryPage.error # null /\ categoryPage.loading = FALSE
\* The product-detail view's re-fetch for another productId fails at the
\* first call while the product and related products of the first are held:
C16_StaleDetailData ==
    /\ FailedFetchOf("ProductDetailPage")
    /\ lastSettled.call = "getProductById"
    /\ lastSettled.productId = route.productId
    /\ issued = 2
    /\ Len(requests) = Len(shellRequests)
    /\ detailPage.relatedProducts # << >>
    /\ detailPage.product \notin NoResult
    /\ detailPage.product.id # route.productId
\* The product-detail view's first load fails at the all-products call; the
\* product fetched before it is held, the related list is empty:
C16_PartialDetailData ==
    /\ FailedFetchOf("ProductDetailPage")
    /\ lastSettled.call = "getAllProducts"
    /\ issued = 1
    /\ detailPage.product = lastSettled.fetched
    /\ detailPage.product \notin NoResult
    /\ detailPage.relatedProducts = << >>

\* The error message a component holds in its state.  Header declares no
\* such state (its state is categories and isMobileMenuOpen).
errorHeldBy(owner) ==
    CASE owner = "Header" -> null
      [] owner = "SearchProvider" -> searchProvider.searchError
      [] owner = "HomePage" -> homePage.error
      [] owner = "CategoryProductsPage" -> categoryPage.error
      [] owner = "ProductDetailPage" -> detailPage.error

\* Every call is awaited inside a try block with a catch clause, so no
\* rejection leaves the component that awaited it; what the catch clause
\* leaves in the component's state is the question.
\* C17: right after a catalog read (all products, product by id, categories)
\* has failed, the component that triggered it holds a non-empty error
\* message in its state.
C17_FailureYieldsMessage ==
    lastSettled.status = "rejected" =>
        /\ errorHeldBy(lastSettled.owner) # null
        /\ errorHeldBy(lastSettled.owner).message # ""

\* The same for the components other than Header.
C17_MessageOutsideHeader ==
    lastSettled.status = "rejected" /\ lastSettled.owner # "Header" =>
        /\ errorHeldBy(lastSettled.owner) # null
        /\ errorHeldBy(lastSettled.owner).message # ""

\* The categories read has failed and Header's state is what it was.
C17_SilentCategoriesFailure ==
    /\ FailedFetchOf("Header")
    /\ lastSettled.call = "getCategories"
    /\ header = initialHeader

\* C18: no pending call is cancelled.  Whatever the current productId is,
\* the outcome of a getProductById call of the product-detail view is
\* written to the view's state when it arrives (the product on fulfilment;
\* the message, with loading false, on rejection), and likewise the catalog
\* of every fulfilled fetch of the category view.
C18_LateOutcomeOverwrites ==
    /\ lastSettled.status # "none" /\ lastSettled.owner = "ProductDetailPage"
         /\ lastSettled.call = "getProductById" =>
           IF lastSettled.status = "fulfilled"
           THEN detailPage.product = lastSettled.data
           ELSE detailPage.error # null /\ detailPage.loading = FALSE
    /\ lastSettled.status = "fulfilled" /\ lastSettled.owner = "CategoryProductsPage" =>
           categoryPage.allProducts = lastSettled.data

\* productId went from 1 to 2 while the fetch for 1 was pending, the fetch
\* for 2 completed first and the fetch for 1 has now completed too: the view
\* is at rest on /products/2, not loading, without error, showing product 1.
C18_Witness ==
    /\ route.path = "/products/:productId" /\ route.productId = 2
    /\ issued = 2
    /\ Len(requests) = Len(shellRequests)
    /\ lastSettled.status = "fulfilled" /\ lastSettled.call = "getAllProducts"
    /\ lastSettled.productId = 1
    /\ detailPage.loading = FALSE
    /\ detailPage.error = null
    /\ detailPage.product = productWithId(1)

\* The pages that fetch, the one that is mounted, and its loading flag.
FetchingViews == {"HomePage", "CategoryProductsPage", "ProductDetailPage"}
mountedPage ==
    CASE route.path = "/" -> "HomePage"
      [] route.path = "/products/category/:categoryName" -> "CategoryProductsPage"
      [] route.path = "/products/:productId" -> "ProductDetailPage"
      [] route.path = "/Cart" -> "CartPage"
loadingOf(owner) ==
    CASE owner = "HomePage" -> homePage.loading
      [] owner = "CategoryProductsPage" -> categoryPage.loading
      [] owner = "ProductDetailPage" -> detailPage.loading
pendingOf(owner) == Len(SelectSeq(requests, LAMBDA q : q.owner = owner))

\* The render guards of the three pages: if (loading) return <loading>;
\* if (error) return <error message>; otherwise the content (for the
\* product-detail page "Product not found." when product is falsy).
Shows(owner) ==
    IF loadingOf(owner) THEN "loading"
    ELSE IF errorHeldBy(owner) # null /\ errorHeldBy(owner).message # "" THEN "error"
    ELSE IF owner = "ProductDetailPage" /\ detailPage.product \in NoResult
    THEN "not found"
    ELSE "content"

\* The step just taken ended a fetch of owner: a call was rejected, or the
\* last call of the async function was fulfilled.
FetchEnded(owner) ==
    /\ lastSettled.status # "none"
    /\ lastSettled.owner = owner
    /\ \/ lastSettled.status = "rejected"
       \/ ~(owner = "ProductDetailPage" /\ lastSettled.call = "getProductById")

\* Loading from the mount to the first end of a fetch; not loading right
\* after a fetch has ended; the error message shown right after a failure.
C19_LoadingStates ==
    \A v \in FetchingViews :
        /\ mountedPage = v /\ pendingOf(v) = issued => Shows(v) = "loading"
        /\ FetchEnded(v) => loadingOf(v) = FALSE
        /\ FailedFetchOf(v) => Shows(v) = "error"

\* C19: each fetching view shows loading from its mount until a fetch of it
\* first succeeds or fails; whenever a fetch ends, loading is false, and
\* after a failure the error message is shown; and while a call of the
\* mounted view is pending, the view eventually is not loading (or has been
\* left), calls being bound to deliver an outcome.
C19_LoadingLifecycle ==
    /\ []C19_LoadingStates
    /\ \A v \in FetchingViews :
           (mountedPage = v /\ pendingOf(v) > 0)
               ~> (mountedPage # v \/ loadingOf(v) = FALSE)

\* The product-detail view took two calls to stop loading: the first was
\* fulfilled with the product, the second has just been rejected by the
\* transport timeout; the view shows the error message.
C19_Witness ==
    /\ mountedPage = "ProductDetailPage"
    /\ issued = 1
    /\ FailedFetchOf("ProductDetailPage")
    /\ lastSettled.call = "getAllProducts"
    /\ detailPage.product = productWithId(route.productId)
    /\ detailPage.loading = FALSE
    /\ detailPage.error = [message |-> "timeout of 10000ms exceeded"]
    /\ Shows("ProductDetailPage") = "error"

\* The only fetch of the product-detail view since its mount has ended, and
\* its getProductById call had been fulfilled without a product.
UnknownIdFetchEnded ==
    /\ mountedPage = "ProductDetailPage"
    /\ issued = 1
    /\ FetchEnded("ProductDetailPage")
    /\ lastSettled.call = "getAllProducts"
    /\ lastSettled.fetched \in NoResult

\* C20: when the lookup by id yields no product, the product-detail view
\* ends in the not-found state (loading false, error null, no product,
\* "Product not found." shown), whatever the outcome of the all-products
\* call that follows.
C20_UnknownIdEndsNotFound ==
    UnknownIdFetchEnded =>
        /\ detailPage.loading = FALSE
        /\ detailPage.error = null
        /\ detailPage.product \in NoResult
        /\ Shows("ProductDetailPage") = "not found"

\* How it ends as the code has it.  The all-products call is rejected and
\* the error message is shown:
C20_ErrorAfterRejectedCatalog ==
    /\ UnknownIdFetchEnded
    /\ lastSettled.status = "rejected"
    /\ detailPage.product \in NoResult
    /\ Shows("ProductDetailPage") = "error"
\* The lookup gave null, the catalog is not empty, and reading
\* fetchedProduct.category threw:
C20_ErrorAfterNullProduct ==
    /\ UnknownIdFetchEnded
    /\ lastSettled.status = "fulfilled"
    /\ lastSettled.fetched = null
    /\ detailPage.error =
           [message |-> "Cannot read properties of null (reading 'category')"]
    /\ Shows("ProductDetailPage") = "error"
\* The not-found state is reached when the all-products call is fulfilled
\* and the lookup gave "" (or gave null and the catalog is empty):
C20_NotFoundShown ==
    /\ UnknownIdFetchEnded
    /\ lastSettled.status = "fulfilled"
    /\ lastSettled.fetched = emptyBody
    /\ lastSettled.data # << >>
    /\ Shows("ProductDetailPage") = "not found"

(* ------------------- the item count the context exposes ------------------ *)
\* C25: cartTotalItems, as documented on CartContextType (cart.ts:16), is the
\* number of distinct product entries held in the cart.
C25_CountsDistinctEntries == totalItems = Len(cartItems)

\* What the memo computes instead: one entry whose quantity is above one, so
\* the exposed count exceeds the number of entries.
C25_CountExceedsEntries ==
    /\ Len(cartItems) = 1
    /\ cartItems[1].quantity = 2
    /\ totalItems = 2

(* ---------------- the two stages in both orders: SpecStages ------------- *)
\* The page applies the category stage and then the text stage; the other
\* order is the same two stages composed the other way round.
ApplyBothOrders ==
    /\ pc = "call"
    /\ pc' = "return"
    /\ result' =
         [categoryThenText |->
              categoryFilteredProducts(args.products, args.categoryName,
                                       args.searchTerm),
          textThenCategory |->
              categoryStage(searchStage(args.products, args.searchTerm),
                            args.categoryName)]
    /\ UNCHANGED <<args, cartVars, viewVars>>

SpecStages == InitFilter /\ [][ApplyBothOrders]_vars

\* How often a product occurs in a list.
Occurrences(list, product) ==
    Cardinality({i \in 1..Len(list) : list[i] = product})

\* C30: for every product sequence P, category c and term t, filtering by
\* category then by text equals filtering by text then by category, and the
\* result is an order-preserving subsequence of P: it holds no product that
\* is not in P and no product more often than P does.
C30_StagesCommuteAndSelect ==
    pc = "return" =>
        /\ result.categoryThenText = result.textThenCategory
        /\ \E I \in SUBSET (1..Len(args.products)) :
              result.categoryThenText = Restrict(args.products, I)
        /\ \A i \in 1..Len(result.categoryThenText) :
              \E j \in 1..Len(args.products) :
                  result.categoryThenText[i] = args.products[j]
        /\ \A product \in SampleProducts :
              Occurrences(result.categoryThenText, product)
                  <= Occurrences(args.products, product)

\* Both stages drop something: of three products the first is outside the
\* category but matches the term, the second passes both stages, and the
\* third passes neither.
C30_Witness ==
    /\ pc = "return"
    /\ args.categoryName = <<"a">>
    /\ args.searchTerm = <<"A", "b">>
    /\ Len(args.products) = 3
    /\ args.products[1].id = 3
    /\ args.products[2].id = 1
    /\ args.products[3].id = 2
    /\ result.categoryThenText = <<args.products[2]>>
    /\ result.textThenCategory = result.categoryThenText

(* --------------------- loading while a fetch is pending ------------------ *)
\* C26: on the category view and the product-detail view, loading is true in
\* every state in which one of that view's catalog fetches is still in
\* flight, also when a route-parameter change started a second fetch before
\* the first resolved.
C26_LoadingWhileInFlight ==
    \A v \in {"CategoryProductsPage", "ProductDetailPage"} :
        (mountedPage = v /\ pendingOf(v) > 0) => loadingOf(v) = TRUE

\* The finally clause of the first fetch has run while the fetch started by
\* the change of categoryName is still pending.
C26_CategoryIdleWhileFetching ==
    /\ mountedPage = "CategoryProductsPage"
    /\ lastSettled.status # "none"
    /\ lastSettled.owner = "CategoryProductsPage"
    /\ pendingOf("CategoryProductsPage") = 1
    /\ categoryPage.loading = FALSE

\* The same on the product-detail view, after a change of productId.
C26_DetailIdleWhileFetching ==
    /\ mountedPage = "ProductDetailPage"
    /\ lastSettled.status # "none"
    /\ lastSettled.owner = "ProductDetailPage"
    /\ pendingOf("ProductDetailPage") = 1
    /\ detailPage.loading = FALSE

(* -------------------------- no automatic retry --------------------------- *)
\* The step delivers a rejection to a call of owner.
RejectedNow(owner) ==
    /\ lastSettled'.status = "rejected"
    /\ lastSettled'.owner = owner

\* C21: a failed fetch is never retried automatically.  In a step that leaves
\* the route as it is (no navigation, so neither a change of productId or
\* categoryName nor a remount), a view whose fetch fails in that step or has
\* failed before issues no fetch, and an error message that is set stays set;
\* the rejected call itself leaves the pending calls and is not replaced.
C21_NoAutomaticRetry ==
    [][ \A v \in FetchingViews :
          (mountedPage = v /\ route' = route) =>
              /\ (errorHeldBy(v) # null \/ RejectedNow(v)) =>
                     /\ issued' = issued
                     /\ pendingOf(v)' <= pendingOf(v)
                     /\ errorHeldBy(v)' # null
              /\ RejectedNow(v) => pendingOf(v)' = pendingOf(v) - 1 ]_vars

\* The category view's only fetch was rejected, every other call has been
\* answered since, and the search term was changed: the message is still
\* there and nothing is pending.
C21_Witness ==
    /\ mountedPage = "CategoryProductsPage"
    /\ issued = 1
    /\ categoryPage.error # null
    /\ categoryPage.error.message = "Network Error"
    /\ categoryPage.loading = FALSE
    /\ searchTerm # << >>
    /\ requests = << >>

(* ------------------ selectedCategory follows the URL --------------------- *)
\* C23: while the category view is mounted with a defined URL category c and
\* selectedCategory differs from c, the view calls setSelectedCategory(c), so
\* selectedCategory eventually equals c, whether the view was reached by the
\* dropdown or by a link or URL; the selection is changed without a change of
\* route only by this synchronisation, only while the two differ and the URL
\* category is defined, and then to c.
C23_SelectionFollowsUrl ==
    /\ [][ (selectedCategory' # selectedCategory /\ route' = route) =>
               /\ route.path = "/products/category/:categoryName"
               /\ Truthy(route.categoryName)
               /\ selectedCategory # route.categoryName
               /\ selectedCategory' = route.categoryName ]_vars
    /\ \A c \in CategoryParams :
           (/\ route.path = "/products/category/:categoryName"
            /\ route.categoryName = c
            /\ selectedCategory # c)
               ~> (selectedCategory = c)

\* The category view was reached by a link or a typed URL (the header has no
\* categories, so the dropdown offered nothing to click) from another
\* category, and the selection has been realigned from a to B.
C23_Witness ==
    /\ route.path = "/products/category/:categoryName"
    /\ route.categoryName = <<"B">>
    /\ issued = 2
    /\ header.categories = << >>
    /\ selectedCategory = <<"B">>

(* ------------------ what drives the displayed products ------------------- *)
\* The category the Selection State holds, as a filter argument: null selects
\* no category.
selection == IF selectedCategory = NoCategory THEN Undefined ELSE selectedCategory

C24_DisplayedAheadOfSelection ==
    /\ route.path = "/products/category/:categoryName"
    /\ route.categoryName = <<"B">>
    /\ selectedCategory = <<"a">>
    /\ Len(categoryPage.allProducts) = 3
    /\ Len(categoryPage.filteredProducts) = 1
    /\ categoryPage.filteredProducts[1].category = <<"B">>

MaxQuantity == 3     \* largest value the quantity selector is raised to

\* The catalog's products carry a price; the cart reads id and price.
samplePrice(id) == IF id = 1 THEN 10 ELSE 25
cartProductOf(product) == [id |-> product.id, price |-> samplePrice(product.id)]

\* Faulty variant of handleQuantityChange: no floor at 1.
handleQuantityChange_NoFloor(change) ==
    /\ route.path = "/products/:productId"
    /\ Shows("ProductDetailPage") = "content"
    /\ detailPage.quantity + change <= MaxQuantity
    /\ detailPage' = [detailPage EXCEPT !.quantity = @ + change]
    /\ lastSettled' = NoSettle
    /\ UNCHANGED <<route, searchTerm, selectedCategory, searchProvider, header,
                   homePage, categoryPage, requests, issued, cartVars,
                   derivationVars>>

\* ProductDetailPage.handleQuantityChange(change), from the - and + buttons
\* next to the read-only quantity input, which are rendered with the product:
\* setQuantity((prevQty) => Math.max(1, prevQty + change))
handleQuantityChange(change) ==
    /\ route.path = "/products/:productId"
    /\ Shows("ProductDetailPage") = "content"
    /\ detailPage.quantity + change <= MaxQuantity
    /\ detailPage' = [detailPage EXCEPT !.quantity = Max(1, @ + change)]
    /\ lastSettled' = NoSettle
    /\ UNCHANGED <<route, searchTerm, selectedCategory, searchProvider, header,
                   homePage, categoryPage, requests, issued, cartVars,
                   derivationVars>>

\* ProductDetailPage.handleAddToCart, from the Add to Cart button:
\* if (product) { addToCart(product, quantity); alert(...) }
handleAddToCart ==
    /\ route.path = "/products/:productId"
    /\ Shows("ProductDetailPage") = "content"
    /\ detailPage.product \notin NoResult
    /\ LET product == cartProductOf(detailPage.product)
       IN  /\ Commit(addToCart(cartItems, product, detailPage.quantity),
                     [op |-> "addToCart", id |-> product.id,
                      price |-> product.price, quantity |-> detailPage.quantity])
           /\ IF InCart(cartItems, product.id)
              THEN UNCHANGED <<insertionOrder, createdPrice>>
              ELSE /\ insertionOrder' = Append(insertionOrder, product.id)
                   /\ createdPrice' = [createdPrice EXCEPT ![product.id] = product.price]

\* CartPage, the - button of the entry at position k:
\* onClick={() => updateQuantity(item.id, item.quantity - 1)}
\* disabled={item.quantity <= 1}
decrementClick(k) ==
    /\ route.path = "/Cart"
    /\ ~(cartItems[k].quantity <= 1)
    /\ Commit(updateQuantity(cartItems, cartItems[k].id, cartItems[k].quantity - 1),
              [op |-> "updateQuantity", id |-> cartItems[k].id,
               price |-> 0, quantity |-> cartItems[k].quantity - 1])
    /\ UNCHANGED <<insertionOrder, createdPrice>>

\* CartPage, the + button: onClick={() => updateQuantity(item.id, item.quantity + 1)}
incrementClick(k) ==
    /\ route.path = "/Cart"
    /\ Commit(updateQuantity(cartItems, cartItems[k].id, cartItems[k].quantity + 1),
              [op |-> "updateQuantity", id |-> cartItems[k].id,
               price |-> 0, quantity |-> cartItems[k].quantity + 1])
    /\ UNCHANGED <<insertionOrder, createdPrice>>

\* CartPage, Remove: onClick={() => removeFromCart(item.id)}
removeClick(k) ==
    /\ route.path = "/Cart"
    /\ Commit(removeFromCart(cartItems, cartItems[k].id),
              [op |-> "removeFromCart", id |-> cartItems[k].id,
               price |-> 0, quantity |-> 0])
    /\ insertionOrder' = SelectSeq(insertionOrder, LAMBDA id : id # cartItems[k].id)
    /\ createdPrice' = [createdPrice EXCEPT ![cartItems[k].id] = 0]

\* CartPage, Clear Cart (rendered when the cart is not empty): onClick={clearCart}
clearClick ==
    /\ route.path = "/Cart"
    /\ cartItems # << >>
    /\ ClearCart

\* The shopper's events and the outcomes of the calls of the pages visited
\* (the calls of Header and SearchProvider stay pending throughout).  An
\* event is handled to its end before the next one, and a due effect runs
\* first.
NextShop ==
    \/ SyncCategory
    \/ EventDone
    \/ ~syncNeeded /\ lastCall = NoCall /\ \E productId \in DetailParams : OpenDetail(productId)
    \/ ~syncNeeded /\ lastCall = NoCall /\ OpenCart
    \/ ~syncNeeded /\ lastCall = NoCall /\ \E categoryName \in CategoryParams : OpenCategory(categoryName)
    \/ ~syncNeeded /\ lastCall = NoCall /\ \E term \in AppTerms : SetSearchTerm(term)
    \/ ~syncNeeded /\ lastCall = NoCall /\
           \E i \in 1..Len(requests) : requests[i].owner = mountedPage /\ Settle(i)
    \/ \E change \in {0 - 1, 1} : handleQuantityChange(change)
    \/ handleAddToCart
    \/ \E k \in 1..Len(cartItems) : decrementClick(k)
    \/ \E k \in 1..Len(cartItems) : incrementClick(k)
    \/ \E k \in 1..Len(cartItems) : removeClick(k)
    \/ clearClick

SpecShop == Init /\ [][NextShop]_vars


(* ------------------------ properties of the shop ------------------------ *)
\* C22: setSearchTerm(t) sets searchTerm to exactly t and setSelectedCategory(c)
\* sets selectedCategory to exactly c, each leaving the other selection field
\* and cartItems unchanged; and cartItems changes only in a step that issues
\* addToCart, removeFromCart, updateQuantity or clearCart, which is not a
\* fetch completion, a navigation or a selection change.
C22_SelectionAndCartFrames ==
    [][ /\ \A term \in AppTerms :
              SetSearchTerm(term) =>
                  /\ searchTerm' = term
                  /\ selectedCategory' = selectedCategory
                  /\ cartItems' = cartItems
        /\ selectedCategory' # selectedCategory =>
              /\ selectedCategory' = route'.categoryName
              /\ searchTerm' = searchTerm
              /\ cartItems' = cartItems
        /\ searchTerm' # searchTerm => selectedCategory' = selectedCategory
        /\ cartItems' # cartItems =>
              /\ lastCall = NoCall
              /\ lastCall'.op \in {"addToCart", "removeFromCart",
                                   "updateQuantity", "clearCart"}
              /\ route' = route
              /\ requests' = requests
              /\ searchTerm' = searchTerm
              /\ selectedCategory' = selectedCategory ]_vars

\* With two entries in the cart the shopper has searched, has followed a
\* link to a category, whose effect has set the selection, and the page's
\* fetch has just been answered.
C22_Witness ==
    /\ Len(cartItems) = 2
    /\ searchTerm = <<"A">>
    /\ selectedCategory = <<"B">>
    /\ route.categoryName = <<"B">>
    /\ lastSettled.status = "fulfilled"
    /\ lastSettled.owner = "CategoryProductsPage"

\* C28: the product-detail quantity selector is at least 1 in every reachable
\* state and is 1 right after a product has been loaded, and every addToCart
\* and updateQuantity call the pages issue carries a quantity of at least 1.
C28_UiQuantitiesAtLeastOne ==
    /\ detailPage.quantity >= 1
    /\ (/\ lastSettled.status = "fulfilled"
        /\ lastSettled.owner = "ProductDetailPage"
        /\ lastSettled.call = "getProductById") => detailPage.quantity = 1
    /\ lastCall.op \in {"addToCart", "updateQuantity"} => lastCall.quantity >= 1

\* The selector shows 2 and the product has just been added with that
\* quantity to a cart that held another product once.
C28_Witness ==
    /\ route.path = "/products/:productId"
    /\ detailPage.quantity = 2
    /\ lastCall.op = "addToCart"
    /\ lastCall.quantity = 2
    /\ Len(cartItems) = 2
    /\ cartItems[1].quantity = 1

\* The cart page has just issued updateQuantity from its decrement button.
C28_DecrementIssued ==
    /\ route.path = "/Cart"
    /\ lastCall.op = "updateQuantity"
    /\ prevItems # << >>
    /\ \E k \in 1..Len(cartItems) :
           /\ cartItems[k].id = lastCall.id
           /\ prevItems[k].quantity = 2
           /\ cartItems[k].quantity = 1

C29_BadgeHiddenCartListed ==
    /\ Len(cartItems) = 1
    /\ cartItems[1].quantity = 0
    /\ totalItems = 0


(* ------------- several cart calls in one event: SpecBatch -------------- *)
MaxBatch == 3        \* most cart calls issued before one render

BatchProducts == {[id |-> 1, price |-> 10], [id |-> 2, price |-> 25]}
BatchCarts ==
    { << >>,
      << [id |-> 2, price |-> 25, quantity |-> 1] >>,
      << [id |-> 1, price |-> 10, quantity |-> 2],
         [id |-> 2, price |-> 25, quantity |-> 1] >> }
BatchCalls ==
    {[op |-> "addToCart", id |-> p.id, price |-> p.price, quantity |-> q] :
         p \in BatchProducts, q \in QuantityArgs}
    \cup {[op |-> "removeFromCart", id |-> p.id, price |-> 0, quantity |-> 0] :
         p \in BatchProducts}
    \cup {[op |-> "updateQuantity", id |-> p.id, price |-> 0, quantity |-> q] :
         p \in BatchProducts, q \in QuantityArgs}

\* The function a call hands to setCartItems, applied to the state React
\* passes to it.
updater(call, prev) ==
    CASE call.op = "addToCart" ->
             addToCart(prev, [id |-> call.id, price |-> call.price], call.quantity)
      [] call.op = "removeFromCart" -> removeFromCart(prev, call.id)
      [] call.op = "updateQuantity" -> updateQuantity(prev, call.id, call.quantity)

\* Faulty variant of setCartItemsArgument: the new list is computed from the
\* cartItems of the current render and passed as a value.
setCartItemsArgument_FromRenderedItems(call, rendered) ==
    [isFunction |-> FALSE, call |-> call, value |-> updater(call, rendered)]

\* What addToCart, removeFromCart and updateQuantity pass to setCartItems:
\* a function of prevItems.
setCartItemsArgument(call, rendered) ==
    [isFunction |-> TRUE, call |-> call, value |-> << >>]

\* React's processing of the queued updates at the next render, oldest
\* first: a function is called with the state so far, a value replaces it.
RECURSIVE processUpdateQueue(_, _)
processUpdateQueue(state, queue) ==
    IF queue = << >>
    THEN state
    ELSE processUpdateQueue(IF queue[1].isFunction
                            THEN updater(queue[1].call, state)
                            ELSE queue[1].value,
                            SubSeq(queue, 2, Len(queue)))

\* args is the queue of updates of the event being handled; result is the
\* cart that applying each call on its own, one after the other, gives.
InitBatch ==
    /\ cartItems \in BatchCarts
    /\ totalItems = computeTotals(cartItems).totalItems
    /\ totalPrice = computeTotals(cartItems).totalPrice
    /\ lastCall = NoCall
    /\ prevItems = << >>
    /\ insertionOrder = << >>
    /\ createdPrice = [i \in ProductIds |-> 0]
    /\ pc = "event"
    /\ args = << >>
    /\ result = cartItems
    /\ ViewsInit

\* The handler calls one of the cart functions; nothing is rendered yet.
IssueCall ==
    /\ pc = "event"
    /\ Len(args) < MaxBatch
    /\ \E call \in BatchCalls :
           /\ args' = Append(args, setCartItemsArgument(call, cartItems))
           /\ result' = updater(call, result)
    /\ UNCHANGED <<pc, cartVars, viewVars>>

\* The handler has returned and the provider renders.
RenderBatch ==
    /\ pc = "event"
    /\ args # << >>
    /\ pc' = "rendered"
    /\ LET newItems == processUpdateQueue(cartItems, args)
       IN  /\ cartItems' = newItems
           /\ totalItems' = computeTotals(newItems).totalItems
           /\ totalPrice' = computeTotals(newItems).totalPrice
    /\ UNCHANGED <<args, result, lastCall, prevItems, insertionOrder, createdPrice,
                   viewVars>>

SpecBatch == InitBatch /\ [][IssueCall \/ RenderBatch]_vars

\* C27: when several addToCart / removeFromCart / updateQuantity calls are
\* issued before the next render, each is applied in issue order to the
\* result of the previous one and none is lost: the cart rendered equals the
\* sequential application of all of them.
C27_BatchEqualsSequential ==
    pc = "rendered" =>
        /\ cartItems = result
        /\ totalItems = computeTotals(result).totalItems
        /\ totalPrice = computeTotals(result).totalPrice

\* Three calls in one event on a cart holding product 2: product 1 is added
\* twice and product 2 is removed; both additions are in the rendered cart.
C27_Witness ==
    /\ pc = "rendered"
    /\ Len(args) = 3
    /\ args[1].call = [op |-> "addToCart", id |-> 1, price |-> 10, quantity |-> 1]
    /\ args[2].call = [op |-> "addToCart", id |-> 1, price |-> 10, quantity |-> 2]
    /\ args[3].call = [op |-> "removeFromCart", id |-> 2, price |-> 0, quantity |-> 0]
    /\ cartItems = << [id |-> 1, price |-> 10, quantity |-> 3] >>
    /\ totalItems = 3
=============================================================================
